---- MODULE Spec2Model ----
(***************************************************************************)
(* bevy-balls (src/src/main.rs): balls move under gravity inside a         *)
(* circular cage, bounce off the cage and off each other, and a cage hit   *)
(* may spawn one more ball.                                                *)
(*                                                                         *)
(* Numbers.  The program computes in f32.  The model computes exactly, in  *)
(* integers: with the fixed timestep dt = 1/Hz s, a velocity is held in    *)
(* units of 1/Hz px/s and a position in units of 1/Hz^2 px, so that        *)
(* `velocity += gravity * dt` adds BALL_GRAVITY and                        *)
(* `translation += velocity * dt` adds the velocity.  A unit vector is     *)
(* held as a reduced triple (x, y, h) standing for (x/h, y/h); every       *)
(* configuration the model explores has rational distances and exact       *)
(* divisions (ArithmeticExact), so each value is the real-number value of  *)
(* the f32 expression.  f32 rounding is outside the model.                 *)
(***************************************************************************)
EXTENDS Integers, Sequences, FiniteSets, TLC

---------------------------------------------------------------------------
(* Program constants *)

BALL_RADIUS == 10

BALL_STARTING_SPEED == 200

BALL_GRAVITY == -300

CAGE_RADIUS == 100

\* Rate of the engine's fixed timestep (Time<Fixed>, 64 Hz) driving FixedUpdate.
Hz == 64

---------------------------------------------------------------------------
(* Bounds of the exploration *)

\* Fixed ticks explored after the registry was last reset.
MaxTicks == 47

\* Fixed ticks one frame may run (0 .. MaxTicksPerFrame).
MaxTicksPerFrame == 2

\* Frames in which Space is just_pressed.
MaxResets == 2

\* Entity ids handed out by spawn_ball over a run.
MaxEntities == 4

\* Bodies in the registry of a single-tick exploration (TickSpec).
MaxBodies == 3

---------------------------------------------------------------------------
(* Units and vectors *)

\* One pixel, in position units.
Px == Hz * Hz

\* ball_radius / 2.0, in position units.
HalfRadius == (BALL_RADIUS * Px) \div 2

\* cage_radius, in position units.
CageRadius == CAGE_RADIUS * Px

\* gravity.0 * time.delta_seconds(), in velocity units.
GravityDt == BALL_GRAVITY

Abs(a) == IF a < 0 THEN -a ELSE a

RECURSIVE GCD(_, _)
GCD(a, b) == IF b = 0 THEN a ELSE GCD(b, a % b)

ISqrt(s) == CHOOSE r \in 0..s : r * r <= s /\ s < (r + 1) * (r + 1)

VAdd(a, b) == <<a[1] + b[1], a[2] + b[2]>>

VSub(a, b) == <<a[1] - b[1], a[2] - b[2]>>

\* Vec2::ZERO
Zero == <<0, 0>>

\* Vec2::normalize: the unit vector (x/h, y/h) of d; h = 0 stands for the
\* NaN vector that normalizing the zero vector yields.
Normalize(d) ==
    LET g == GCD(Abs(d[1]), Abs(d[2]))
    IN  IF g = 0
        THEN [x |-> 0, y |-> 0, h |-> 0]
        ELSE LET x == d[1] \div g
                 y == d[2] \div g
             IN  [x |-> x, y |-> y, h |-> ISqrt(x * x + y * y)]

\* Vec2::length / Vec2::distance to the origin of d.
Length(d) == GCD(Abs(d[1]), Abs(d[2])) * Normalize(d).h

\* a.distance(b)
Distance(a, b) == Length(VSub(a, b))

\* The length of d is rational, so Normalize and Length are exact.
RationalLength(d) ==
    LET n == Normalize(d) IN n.h * n.h = n.x * n.x + n.y * n.y

\* velocity - 2.0 * velocity.dot(normal) * normal
Reflect(v, n) ==
    LET dot2 == 2 * (v[1] * n.x + v[2] * n.y)
    IN  <<v[1] - (dot2 * n.x) \div (n.h * n.h),
          v[2] - (dot2 * n.y) \div (n.h * n.h)>>

\* The divisions of Reflect(v, n) leave no remainder.
ReflectExact(v, n) ==
    LET dot2 == 2 * (v[1] * n.x + v[2] * n.y)
    IN  /\ n.h > 0
        /\ (dot2 * n.x) % (n.h * n.h) = 0
        /\ (dot2 * n.y) % (n.h * n.h) = 0

\* overlap * normal
Scale(k, n) == <<(k * n.x) \div n.h, (k * n.y) \div n.h>>

ScaleExact(k, n) == n.h > 0 /\ (k * n.x) % n.h = 0 /\ (k * n.y) % n.h = 0

---------------------------------------------------------------------------
(* Bodies: the entities spawned by spawn_ball *)

\* The components the physics reads and writes: Transform.translation (x, y),
\* Velocity, and whether these hold NaN.
Body(pos, vel) == [pos |-> pos, vel |-> vel, nan |-> FALSE]

\* The NaN that arithmetic on a NaN normal leaves in velocity and translation.
NaNBody(b) == [b EXCEPT !.nan = TRUE]

\* The permutations of S: the orders in which a query may iterate S.
Perms(S) ==
    {f \in [1..Cardinality(S) -> S] : \A i, j \in 1..Cardinality(S) : f[i] = f[j] => i = j}

\* apply_gravity on one body: velocity.y += gravity.0 * dt
GravityBody(b) == [b EXCEPT !.vel = VAdd(@, <<0, GravityDt>>)]

\* apply_velocity on one body: translation += velocity * dt
VelocityBody(b) == [b EXCEPT !.pos = VAdd(@, b.vel)]

\* Penetrates with the slip of testing the center alone: distance > cage_radius
PenetratesByCenter(pos) == Distance(pos, Zero) > CageRadius

\* distance + (ball_radius / 2.0) > cage_radius
Penetrates(pos) == Distance(pos, Zero) + HalfRadius > CageRadius

\* CollideCageBody with a sign slip in the correction: translation -= overlap * normal
CollideCageBodyOutward(e, b) ==
    IF ~b.nan /\ Penetrates(b.pos)
    THEN LET distance == Distance(b.pos, Zero)
             normal == Normalize(VSub(Zero, b.pos))
             overlap == HalfRadius + distance - CageRadius
         IN  [body |-> [b EXCEPT !.vel = Reflect(b.vel, normal),
                                 !.pos = VSub(b.pos, Scale(overlap, normal))],
              events |-> <<e>>]
    ELSE [body |-> b, events |-> <<>>]

\* The body of collide_cage's loop for entity e: the corrected body and the
\* events sent.
CollideCageBody(e, b) ==
    IF ~b.nan /\ Penetrates(b.pos)
    THEN LET distance == Distance(b.pos, Zero)
             normal == Normalize(VSub(Zero, b.pos))
             overlap == HalfRadius + distance - CageRadius
         IN  [body |-> [b EXCEPT !.vel = Reflect(b.vel, normal),
                                 !.pos = VAdd(b.pos, Scale(overlap, normal))],
              events |-> <<e>>]
    ELSE [body |-> b, events |-> <<>>]

\* collide_cage over the query in iteration order ord.
RECURSIVE CollideCageAll(_, _, _, _)
CollideCageAll(bs, ord, i, evs) ==
    IF i > Len(ord)
    THEN [balls |-> bs, events |-> evs]
    ELSE LET r == CollideCageBody(ord[i], bs[ord[i]])
         IN  CollideCageAll([bs EXCEPT ![ord[i]] = r.body], ord, i + 1, evs \o r.events)

\* BallPositions without the snapshot: each position as corrected so far.
BallPositionsLive(start, live, ord) ==
    [i \in 1..Len(ord) |-> [entity |-> ord[i], pos |-> live[ord[i]].pos, nan |-> live[ord[i]].nan]]

\* ball_positions: the (entity, position) pairs collected when collide_others
\* starts (start: the registry then; live: the registry as corrected so far).
BallPositions(start, live, ord) ==
    [i \in 1..Len(ord) |-> [entity |-> ord[i], pos |-> start[ord[i]].pos, nan |-> start[ord[i]].nan]]

\* SamePosition with the guard left out.
SamePositionUnguarded(p, pnan, other) == FALSE

\* ball_position == *other_position (false when either is NaN)
SamePosition(p, pnan, other) == ~pnan /\ ~other.nan /\ p = other.pos

\* distance < (ball_radius / 2.) + (other_radius / 2.)
Overlaps(p, pnan, other) ==
    ~pnan /\ ~other.nan /\ Distance(p, other.pos) < HalfRadius + HalfRadius

\* OtherStep with a sign slip in the correction: translation += overlap * normal
OtherStepToward(e, acc, p, pnan, other) ==
    IF SamePosition(p, pnan, other)
    THEN acc
    ELSE IF Overlaps(p, pnan, other)
    THEN LET distance == Distance(p, other.pos)
             normal == Normalize(VSub(other.pos, p))
             overlap == HalfRadius + HalfRadius - distance
             moved == IF normal.h = 0 \/ acc.body.nan
                      THEN NaNBody(acc.body)
                      ELSE [acc.body EXCEPT !.vel = Reflect(@, normal),
                                            !.pos = VAdd(@, Scale(overlap, normal))]
         IN  [body |-> moved,
              events |-> Append(acc.events, <<e, other.entity>>)]
    ELSE acc

\* One turn of collide_others' inner loop: entity e (velocity and translation
\* so far in acc.body, position read at the start in p) against other.
OtherStep(e, acc, p, pnan, other) ==
    IF SamePosition(p, pnan, other)
    THEN acc
    ELSE IF Overlaps(p, pnan, other)
    THEN LET distance == Distance(p, other.pos)
             normal == Normalize(VSub(other.pos, p))
             overlap == HalfRadius + HalfRadius - distance
             moved == IF normal.h = 0 \/ acc.body.nan
                      THEN NaNBody(acc.body)
                      ELSE [acc.body EXCEPT !.vel = Reflect(@, normal),
                                            !.pos = VSub(@, Scale(overlap, normal))]
         IN  [body |-> moved,
              events |-> Append(acc.events, <<e, other.entity>>)]
    ELSE acc

\* collide_others' inner loop from the i-th snapshot entry on.
RECURSIVE OthersLoop(_, _, _, _, _, _)
OthersLoop(e, acc, p, pnan, ball_positions, i) ==
    IF i > Len(ball_positions)
    THEN acc
    ELSE OthersLoop(e, OtherStep(e, acc, p, pnan, ball_positions[i]), p, pnan,
                    ball_positions, i + 1)

\* collide_others' outer loop from the i-th entity of ord on.
RECURSIVE CollideOthersAll(_, _, _, _, _)
CollideOthersAll(start, live, ord, i, evs) ==
    IF i > Len(ord)
    THEN [balls |-> live, events |-> evs]
    ELSE LET e == ord[i]
             r == OthersLoop(e, [body |-> live[e], events |-> <<>>],
                             live[e].pos, live[e].nan,
                             BallPositions(start, live, ord), 1)
         IN  CollideOthersAll(start, [live EXCEPT ![e] = r.body], ord, i + 1,
                              evs \o r.events)

---------------------------------------------------------------------------
(* Events<E> and EventReader<E> *)

\* Events<E>: the two buffers and the number of events ever sent.
NoEvents == [a |-> <<>>, b |-> <<>>, count |-> 0]

\* EventWriter::send of each event of xs
Send(ev, xs) == [ev EXCEPT !.b = @ \o xs, !.count = @ + Len(xs)]

\* Events::update: the older buffer is dropped
Update(ev) == [ev EXCEPT !.a = ev.b, !.b = <<>>]

\* The events still buffered, oldest first, and the count of the oldest.
Buffered(ev) == ev.a \o ev.b

\* EventReader::len: the events a reader at cursor last has not read
Unread(ev, last) ==
    LET sent == IF ev.count > last THEN ev.count - last ELSE 0
        kept == Len(Buffered(ev))
    IN  IF sent < kept THEN sent ELSE kept

\* EventReader::is_empty
IsEmpty(ev, last) == Unread(ev, last) = 0

---------------------------------------------------------------------------
(* Schedules *)

\* FixedUpdateChain with the two integration systems in the other order.
FixedUpdateChainVelocityFirst == <<"apply_velocity", "apply_gravity", "collide_cage", "collide_others">>

\* FixedUpdate: (apply_gravity, apply_velocity, collide_cage, collide_others).chain()
FixedUpdateChain == <<"apply_gravity", "apply_velocity", "collide_cage", "collide_others">>

\* Update: the systems of this program, unordered (close_on_esc, the engine's
\* own system, ends the run and is left out).
UpdateSystems == {"play_collision_sound", "spawn_ball_on_space", "maybe_spawn_ball"}

\* The unit vectors starting_direction.normalize() is drawn from: the two
\* along the vertical axis, on which the motion stays rational.
SpawnDirections == {[x |-> 0, y |-> 1, h |-> 1], [x |-> 0, y |-> -1, h |-> 1]}

\* Commands
SpawnCommand(e, vel) == [op |-> "spawn", entities |-> {e}, vel |-> vel]

DespawnCommand(es) == [op |-> "despawn", entities |-> es, vel |-> Zero]

AudioCommand == [op |-> "audio", entities |-> {}, vel |-> Zero]

\* spawn_ball: the command it queues for the entity id it reserves
SpawnBall(e, dir) == SpawnCommand(e, Scale(BALL_STARTING_SPEED * Hz, dir))

VARIABLES
    balls,        \* the Body Registry: entity id -> Body
    next_entity,  \* the next entity id spawn_ball reserves
    cage_events,  \* Events<CageCollisionEvent>
    other_events, \* Events<OtherCollisionEvent>
    readers,      \* last_event_count of each EventReader
    signal,       \* a fixed tick ran since the last Events::update
    commands,     \* the Commands queue of each Update system
    phase,        \* "first", "fixed" (RunFixedMainLoop) or "update"
    stage,        \* the system of FixedUpdateChain to run next; 0 between ticks
    ran,          \* the Update systems that ran in this frame
    space,        \* keyboard_input.just_pressed(KeyCode::Space) in this frame
    frame_ticks,  \* fixed ticks run in this frame
    ticks,        \* fixed ticks run since the registry was last reset
    resets,       \* frames so far with Space just pressed
    tick_start    \* history: registry and event counts when the current tick began

vars == <<balls, next_entity, cage_events, other_events, readers, signal, commands,
          phase, stage, ran, space, frame_ticks, ticks, resets, tick_start>>

NoCommands == [s \in UpdateSystems |-> <<>>]

NoReaders == [sound_cage |-> 0, sound_other |-> 0, spawn_cage |-> 0]

Snapshot == [balls |-> balls, cage |-> cage_events.count, other |-> other_events.count]

\* After setup: camera, sound and cage exist, and no ball.
Init ==
    /\ balls = <<>>
    /\ next_entity = 1
    /\ cage_events = NoEvents
    /\ other_events = NoEvents
    /\ readers = NoReaders
    /\ signal = FALSE
    /\ commands = NoCommands
    /\ phase = "first"
    /\ stage = 0
    /\ ran = {}
    /\ space = FALSE
    /\ frame_ticks = 0
    /\ ticks = 0
    /\ resets = 0
    /\ tick_start = [balls |-> <<>>, cage |-> 0, other |-> 0]

---------------------------------------------------------------------------
(* The frame: First, RunFixedMainLoop, Update *)

\* First and PreUpdate: the event buffers are updated once a fixed tick has
\* run, and the keyboard state of the frame is read.
BeginFrame ==
    /\ phase = "first"
    /\ cage_events' = IF signal THEN Update(cage_events) ELSE cage_events
    /\ other_events' = IF signal THEN Update(other_events) ELSE other_events
    /\ signal' = FALSE
    /\ \E pressed \in BOOLEAN :
        /\ pressed => (resets < MaxResets /\ next_entity <= MaxEntities)
        /\ space' = pressed
        /\ resets' = IF pressed THEN resets + 1 ELSE resets
    /\ phase' = "fixed"
    /\ frame_ticks' = 0
    /\ UNCHANGED <<balls, next_entity, readers, commands, stage, ran, ticks, tick_start>>

\* RunFixedMainLoop: enough time has accumulated for one more fixed tick.
StartTick ==
    /\ phase = "fixed"
    /\ stage = 0
    /\ frame_ticks < MaxTicksPerFrame
    /\ ticks < MaxTicks
    /\ stage' = 1
    /\ tick_start' = Snapshot
    /\ UNCHANGED <<balls, next_entity, cage_events, other_events, readers, signal,
                   commands, phase, ran, space, frame_ticks, ticks, resets>>

\* The system named name is the one the chain runs next.
Runs(name) == phase = "fixed" /\ stage \in 1..Len(FixedUpdateChain) /\ FixedUpdateChain[stage] = name

\* The chain moves on; after its last system the tick is over.
Chained ==
    LET last == stage = Len(FixedUpdateChain)
    IN  /\ stage' = IF last THEN 0 ELSE stage + 1
        /\ frame_ticks' = IF last THEN frame_ticks + 1 ELSE frame_ticks
        /\ ticks' = IF last THEN ticks + 1 ELSE ticks
        /\ signal' = (last \/ signal)
        /\ UNCHANGED <<next_entity, readers, commands, phase, ran, space, resets, tick_start>>

ApplyGravity ==
    /\ Runs("apply_gravity")
    /\ balls' = [e \in DOMAIN balls |-> GravityBody(balls[e])]
    /\ UNCHANGED <<cage_events, other_events>>
    /\ Chained

ApplyVelocity ==
    /\ Runs("apply_velocity")
    /\ balls' = [e \in DOMAIN balls |-> VelocityBody(balls[e])]
    /\ UNCHANGED <<cage_events, other_events>>
    /\ Chained

CollideCage ==
    /\ Runs("collide_cage")
    /\ \E ord \in Perms(DOMAIN balls) :
        LET r == CollideCageAll(balls, ord, 1, <<>>)
        IN  /\ balls' = r.balls
            /\ cage_events' = Send(cage_events, r.events)
    /\ UNCHANGED other_events
    /\ Chained

CollideOthers ==
    /\ Runs("collide_others")
    /\ \E ord \in Perms(DOMAIN balls) :
        LET r == CollideOthersAll(balls, balls, ord, 1, <<>>)
        IN  /\ balls' = r.balls
            /\ other_events' = Send(other_events, r.events)
    /\ UNCHANGED cage_events
    /\ Chained

\* RunFixedMainLoop is over: the frame goes on to Update.
EndFixed ==
    /\ phase = "fixed"
    /\ stage = 0
    /\ phase' = "update"
    /\ ran' = {}
    /\ UNCHANGED <<balls, next_entity, cage_events, other_events, readers, signal,
                   commands, stage, space, frame_ticks, ticks, resets, tick_start>>

\* The Update system named name has its turn.
Turn(name) == phase = "update" /\ name \notin ran /\ ran' = ran \cup {name}

\* play_collision_sound without events.clear(): the sounds play, and the
\* readers stay where they were.
PlayCollisionSoundNoClear ==
    /\ Turn("play_collision_sound")
    /\ LET wall == ~IsEmpty(cage_events, readers.sound_cage)
           ball == ~IsEmpty(other_events, readers.sound_other)
       IN  commands' = [commands EXCEPT !["play_collision_sound"] =
                            @ \o (IF wall THEN <<AudioCommand>> ELSE <<>>)
                              \o (IF ball THEN <<AudioCommand>> ELSE <<>>)]
    /\ UNCHANGED <<balls, next_entity, cage_events, other_events, readers, signal, phase,
                   stage, space, frame_ticks, ticks, resets, tick_start>>

PlayCollisionSound ==
    /\ Turn("play_collision_sound")
    /\ LET wall == ~IsEmpty(cage_events, readers.sound_cage)
           ball == ~IsEmpty(other_events, readers.sound_other)
       IN  /\ readers' = [readers EXCEPT
                            !.sound_cage = IF wall THEN cage_events.count ELSE @,
                            !.sound_other = IF ball THEN other_events.count ELSE @]
           /\ commands' = [commands EXCEPT !["play_collision_sound"] =
                            @ \o (IF wall THEN <<AudioCommand>> ELSE <<>>)
                              \o (IF ball THEN <<AudioCommand>> ELSE <<>>)]
    /\ UNCHANGED <<balls, next_entity, cage_events, other_events, signal, phase, stage,
                   space, frame_ticks, ticks, resets, tick_start>>

\* An entity id is left for one more spawn_ball in this frame.
CanSpawn(name) ==
    LET owed == IF space /\ name # "spawn_ball_on_space" /\ "spawn_ball_on_space" \notin ran
                THEN 1 ELSE 0
    IN  next_entity + owed <= MaxEntities

\* maybe_spawn_ball without the return on events.is_empty(): the random draw
\* is made in every frame.
MaybeSpawnBallUnguarded ==
    /\ Turn("maybe_spawn_ball")
    /\ readers' = [readers EXCEPT !.spawn_cage = cage_events.count]
    /\ \E lucky \in BOOLEAN :
        /\ lucky => CanSpawn("maybe_spawn_ball")
        /\ IF lucky
           THEN \E dir \in SpawnDirections :
                /\ commands' = [commands EXCEPT !["maybe_spawn_ball"] =
                                  Append(@, SpawnBall(next_entity, dir))]
                /\ next_entity' = next_entity + 1
           ELSE UNCHANGED <<commands, next_entity>>
    /\ UNCHANGED <<balls, cage_events, other_events, signal, phase, stage, space,
                   frame_ticks, ticks, resets, tick_start>>

\* maybe_spawn_ball that also despawns the bodies its events name, as the
\* system remove_colliding_balls (commented out in the source) does for
\* OtherCollisionEvents.
MaybeSpawnBallRemoving ==
    /\ Turn("maybe_spawn_ball")
    /\ IF ~IsEmpty(cage_events, readers.spawn_cage)
       THEN /\ readers' = [readers EXCEPT !.spawn_cage = cage_events.count]
            /\ \E lucky \in BOOLEAN :
                /\ lucky => CanSpawn("maybe_spawn_ball")
                /\ IF lucky
                   THEN \E dir \in SpawnDirections :
                        /\ commands' = [commands EXCEPT !["maybe_spawn_ball"] =
                                          @ \o <<DespawnCommand({e \in DOMAIN balls :
                                                    \E i \in 1..Len(cage_events.b) : cage_events.b[i] = e}),
                                                 SpawnBall(next_entity, dir)>>]
                        /\ next_entity' = next_entity + 1
                   ELSE UNCHANGED <<commands, next_entity>>
       ELSE UNCHANGED <<readers, commands, next_entity>>
    /\ UNCHANGED <<balls, cage_events, other_events, signal, phase, stage, space,
                   frame_ticks, ticks, resets, tick_start>>

MaybeSpawnBall ==
    /\ Turn("maybe_spawn_ball")
    /\ IF ~IsEmpty(cage_events, readers.spawn_cage)
       THEN /\ readers' = [readers EXCEPT !.spawn_cage = cage_events.count]
            /\ \E lucky \in BOOLEAN :
                /\ lucky => CanSpawn("maybe_spawn_ball")
                /\ IF lucky
                   THEN \E dir \in SpawnDirections :
                        /\ commands' = [commands EXCEPT !["maybe_spawn_ball"] =
                                          Append(@, SpawnBall(next_entity, dir))]
                        /\ next_entity' = next_entity + 1
                   ELSE UNCHANGED <<commands, next_entity>>
       ELSE UNCHANGED <<readers, commands, next_entity>>
    /\ UNCHANGED <<balls, cage_events, other_events, signal, phase, stage, space,
                   frame_ticks, ticks, resets, tick_start>>

\* spawn_ball_on_space without the despawn loop.
SpawnBallOnSpaceKeeping ==
    /\ Turn("spawn_ball_on_space")
    /\ IF space
       THEN \E dir \in SpawnDirections :
            /\ commands' = [commands EXCEPT !["spawn_ball_on_space"] =
                              Append(@, SpawnBall(next_entity, dir))]
            /\ next_entity' = next_entity + 1
       ELSE UNCHANGED <<commands, next_entity>>
    /\ UNCHANGED <<balls, cage_events, other_events, readers, signal, phase, stage,
                   space, frame_ticks, ticks, resets, tick_start>>

SpawnBallOnSpace ==
    /\ Turn("spawn_ball_on_space")
    /\ IF space
       THEN \E dir \in SpawnDirections :
            /\ commands' = [commands EXCEPT !["spawn_ball_on_space"] =
                              @ \o <<DespawnCommand(DOMAIN balls), SpawnBall(next_entity, dir)>>]
            /\ next_entity' = next_entity + 1
       ELSE UNCHANGED <<commands, next_entity>>
    /\ UNCHANGED <<balls, cage_events, other_events, readers, signal, phase, stage,
                   space, frame_ticks, ticks, resets, tick_start>>

\* Every command queued in this frame, by system.
Queued(cmds, op) ==
    {c \in UNION {{cmds[s][i] : i \in 1..Len(cmds[s])} : s \in UpdateSystems} : c.op = op}

\* The registry once the queued commands are applied.
Applied(bs, cmds) ==
    LET despawned == UNION {c.entities : c \in Queued(cmds, "despawn")}
        spawned == Queued(cmds, "spawn")
        kept == DOMAIN bs \ despawned
        new == UNION {c.entities : c \in spawned}
    IN  [e \in kept \cup new |->
            IF e \in new
            THEN Body(Zero, (CHOOSE c \in spawned : e \in c.entities).vel)
            ELSE bs[e]]

\* The end of Update: the commands of its systems are applied, and the frame ends.
ApplyDeferred ==
    /\ phase = "update"
    /\ ran = UpdateSystems
    /\ balls' = Applied(balls, commands)
    /\ commands' = NoCommands
    /\ ticks' = IF Queued(commands, "despawn") # {} THEN 0 ELSE ticks
    /\ phase' = "first"
    /\ UNCHANGED <<next_entity, cage_events, other_events, readers, signal, stage,
                   ran, space, frame_ticks, resets, tick_start>>

Next ==
    \/ BeginFrame
    \/ StartTick
    \/ ApplyGravity
    \/ ApplyVelocity
    \/ CollideCage
    \/ CollideOthers
    \/ EndFixed
    \/ PlayCollisionSound
    \/ MaybeSpawnBall
    \/ SpawnBallOnSpace
    \/ ApplyDeferred

Spec == Init /\ [][Next]_vars

---------------------------------------------------------------------------
(* One fixed tick from a registry drawn from a bounded set *)

\* Bodies as the integrator leaves them: position in pixels, velocity in
\* velocity units.  On the vertical axis and on the 3-4-5 ray, inside the
\* cage and across its wall, apart and overlapping.
TickBodies ==
    << [pos |-> <<0, 0>>,   vel |-> <<0, -12800>>],
       [pos |-> <<0, 1>>,   vel |-> <<0, 12800>>],
       [pos |-> <<0, 9>>,   vel |-> <<0, -12800>>],
       [pos |-> <<3, 4>>,   vel |-> <<12800, 0>>],
       [pos |-> <<0, -90>>, vel |-> <<0, -12800>>],
       [pos |-> <<0, -94>>, vel |-> <<0, -19200>>],
       [pos |-> <<0, 99>>,  vel |-> <<0, 12800>>],
       [pos |-> <<54, 72>>, vel |-> <<7680, 10240>>],
       [pos |-> <<57, 76>>, vel |-> <<0, -12800>>],
       [pos |-> <<60, 80>>, vel |-> <<7680, 10240>>] >>

\* The body that one apply_gravity and one apply_velocity turn into c.
BeforeTick(c) ==
    LET pos == <<c.pos[1] * Px, c.pos[2] * Px>>
    IN  Body(VSub(pos, c.vel), VSub(c.vel, <<0, GravityDt>>))

\* collide_cage computes on bs without rounding.
CageExact(bs) ==
    \A e \in DOMAIN bs :
        /\ RationalLength(bs[e].pos)
        /\ Penetrates(bs[e].pos) =>
            LET normal == Normalize(VSub(Zero, bs[e].pos))
                overlap == HalfRadius + Distance(bs[e].pos, Zero) - CageRadius
            IN  ReflectExact(bs[e].vel, normal) /\ ScaleExact(overlap, normal)

\* One turn of collide_others' inner loop computes without rounding.
StepExact(acc, p, other) ==
    \/ p = other.pos
    \/ /\ RationalLength(VSub(other.pos, p))
       /\ Overlaps(p, FALSE, other) =>
            LET normal == Normalize(VSub(other.pos, p))
                overlap == HalfRadius + HalfRadius - Distance(p, other.pos)
            IN  ReflectExact(acc.body.vel, normal) /\ ScaleExact(overlap, normal)

RECURSIVE LoopExact(_, _, _, _, _)
LoopExact(e, acc, p, ball_positions, i) ==
    IF i > Len(ball_positions)
    THEN TRUE
    ELSE /\ StepExact(acc, p, ball_positions[i])
         /\ LoopExact(e, OtherStep(e, acc, p, FALSE, ball_positions[i]), p,
                      ball_positions, i + 1)

\* collide_others computes on bs without rounding, whatever the query order.
OthersExact(bs) ==
    \A ord \in Perms(DOMAIN bs) : \A e \in DOMAIN bs :
        LoopExact(e, [body |-> bs[e], events |-> <<>>], bs[e].pos,
                  BallPositions(bs, bs, ord), 1)

\* A whole tick from registry bs computes without rounding.
ArithmeticExact(bs) ==
    LET moved == [e \in DOMAIN bs |-> VelocityBody(GravityBody(bs[e]))]
        ord == CHOOSE o \in Perms(DOMAIN bs) : TRUE
    IN  /\ CageExact(moved)
        /\ OthersExact(CollideCageAll(moved, ord, 1, <<>>).balls)

\* The registries of 1 .. MaxBodies bodies a tick is explored from: each
\* choice of bodies once, entity ids in the order of TickBodies.
TickRegistries ==
    UNION {
        { bs \in { [i \in 1..k |-> BeforeTick(TickBodies[f[i]])] :
                     f \in {g \in [1..k -> 1..Len(TickBodies)] :
                              \A i \in 1..(k - 1) : g[i] <= g[i + 1]} } :
            ArithmeticExact(bs) } : k \in 1..MaxBodies }

\* A registry of 1 .. MaxBodies bodies at the start of a fixed tick.
TickInit ==
    /\ \E bs \in TickRegistries :
        /\ balls = bs
        /\ next_entity = Len(bs) + 1
    /\ cage_events = NoEvents
    /\ other_events = NoEvents
    /\ readers = NoReaders
    /\ signal = FALSE
    /\ commands = NoCommands
    /\ phase = "fixed"
    /\ stage = 1
    /\ ran = {}
    /\ space = FALSE
    /\ frame_ticks = 0
    /\ ticks = 0
    /\ resets = 0
    /\ tick_start = [balls |-> balls, cage |-> 0, other |-> 0]

TickNext ==
    \/ ApplyGravity
    \/ ApplyVelocity
    \/ CollideCage
    \/ CollideOthers

TickSpec == TickInit /\ [][TickNext]_vars

---------------------------------------------------------------------------
(* Vocabulary of the properties *)

\* The readers of the two effects have read every event sent so far.
AllRead ==
    /\ IsEmpty(cage_events, readers.sound_cage)
    /\ IsEmpty(cage_events, readers.spawn_cage)
    /\ IsEmpty(other_events, readers.sound_other)

\* The integrator (apply_gravity) is the system about to run.
IntegratorNext == Runs("apply_gravity")

\* A fixed tick has just run all of its chain.
TickDone == phase = "fixed" /\ stage = 0 /\ frame_ticks > 0

\* The boundary and body events sent since the current tick began.
TickCageEvents == SubSeq(cage_events.b, Len(cage_events.b) - (cage_events.count - tick_start.cage) + 1, Len(cage_events.b))

TickOtherEvents == SubSeq(other_events.b, Len(other_events.b) - (other_events.count - tick_start.other) + 1, Len(other_events.b))

\* The boundary events sent by the fixed ticks of the current frame: the
\* buffer Events::update emptied when the frame began.
FrameCageEvents == cage_events.b

Range(q) == {q[i] : i \in 1..Len(q)}

\* The step that applies the commands of a frame.
DeferredStep == phase = "update" /\ phase' = "first"

\* What maybe_spawn_ball has queued in this frame.
MaybeSpawned == commands["maybe_spawn_ball"]

---------------------------------------------------------------------------
(* C1 *)

\* C1, as stated: when the integrator of a tick starts, every collision event
\* of the earlier ticks has been consumed by the effects.
C1_ConsumedBeforeNextTick == IntegratorNext => AllRead

\* C1, amended: the effects run in Update, once per frame.  When a frame ends,
\* and until the integrator of the next frame's first tick has run, every
\* collision event has been read by play_collision_sound and maybe_spawn_ball.
C1_ConsumedBeforeNextFrame ==
    (phase = "first" \/ (phase = "fixed" /\ frame_ticks = 0 /\ (stage = 0 \/ IntegratorNext)))
        => AllRead

\* A frame's first integrator runs while boundary events sent in the frame
\* before are still buffered, and read.
C1_Witness ==
    /\ IntegratorNext
    /\ frame_ticks = 0
    /\ Len(cage_events.a) > 0
    /\ AllRead

---------------------------------------------------------------------------
(* C3 *)

\* C3, as stated: maybe_spawn_ball spawns nothing unless the tick that ran
\* last sent a boundary event.
C3_SpawnNeedsEventInTick ==
    Len(MaybeSpawned) > 0 => cage_events.count > tick_start.cage

\* C3, amended: in a frame maybe_spawn_ball queues at most one spawn, however
\* many boundary events the frame's ticks sent, and none when they sent none
\* (body events alone never make it spawn).
C3_SpawnBound ==
    /\ Len(MaybeSpawned) <= 1
    /\ \A c \in Range(MaybeSpawned) : c.op = "spawn" /\ Cardinality(c.entities) = 1
    /\ Len(MaybeSpawned) > 0 => Len(FrameCageEvents) > 0

\* Two boundary events in one frame, and one spawn.
C3_Witness == Len(MaybeSpawned) = 1 /\ Len(FrameCageEvents) >= 2

---------------------------------------------------------------------------
(* C4 *)

\* The step that applies a reset: the commands of a frame in which Space was
\* just pressed.
ResetStep == DeferredStep /\ space

\* The entities the spawn commands of this frame reserved.
SpawnedNow == UNION {c.entities : c \in Queued(commands, "spawn")}

\* C4, as stated: once a reset is applied the registry holds no body.
C4_ResetLeavesNoBody == [][ResetStep => balls' = <<>>]_vars

\* C4, amended: a reset replaces the population.  Once it is applied, no body
\* that existed before is left, and the registry holds the one body the reset
\* spawned at the cage center, and one more when maybe_spawn_ball spawned in
\* the same frame.
C4_ResetReplacesBodies ==
    [][ResetStep =>
        /\ DOMAIN balls \cap DOMAIN balls' = {}
        /\ DOMAIN balls' = SpawnedNow
        /\ Cardinality(DOMAIN balls') = 1 + Len(MaybeSpawned)
        /\ \A e \in DOMAIN balls' : balls'[e].pos = Zero]_vars

\* A reset of a registry of two bodies has been applied, in a frame in which
\* maybe_spawn_ball spawned too: entities 1 and 2 are gone, 3 and 4 are there.
C4_Witness ==
    /\ phase = "first"
    /\ space
    /\ resets = 2
    /\ DOMAIN balls = {3, 4}
    /\ \A e \in DOMAIN balls : balls[e].pos = Zero

---------------------------------------------------------------------------
(* C5 *)

\* C5: in a step that applies no reset, no body leaves the registry, and a
\* body enters it only through a queued spawn_ball.
C5_NoBodyLostWithoutReset ==
    [][~ResetStep =>
        /\ DOMAIN balls \subseteq DOMAIN balls'
        /\ DOMAIN balls' \ DOMAIN balls \subseteq (IF DeferredStep THEN SpawnedNow ELSE {})]_vars

\* A frame without reset ends after two bodies collided with each other, and
\* both are in the registry.
C5_Witness ==
    /\ phase = "first"
    /\ ~space
    /\ Len(other_events.b) > 0
    /\ \A ev \in Range(other_events.b) : ev[1] \in DOMAIN balls /\ ev[2] \in DOMAIN balls

---------------------------------------------------------------------------
(* C2 *)

\* The step from stage i of a tick: the registry and the events change as the
\* i-th of apply_gravity, apply_velocity, collide_cage, collide_others changes
\* them, all bodies at once, and the tick moves to stage i + 1 (after the
\* fourth, the tick is over).
C2_StageStep ==
    /\ stage = 1 =>
        /\ stage' = 2
        /\ \A e \in DOMAIN balls :
            /\ balls'[e].vel = <<balls[e].vel[1], balls[e].vel[2] + BALL_GRAVITY>>
            /\ balls'[e].pos = balls[e].pos
        /\ UNCHANGED <<cage_events, other_events>>
    /\ stage = 2 =>
        /\ stage' = 3
        /\ \A e \in DOMAIN balls :
            /\ balls'[e].pos = <<balls[e].pos[1] + balls[e].vel[1], balls[e].pos[2] + balls[e].vel[2]>>
            /\ balls'[e].vel = balls[e].vel
        /\ UNCHANGED <<cage_events, other_events>>
    /\ stage = 3 =>
        /\ stage' = 4
        /\ UNCHANGED other_events
        /\ cage_events'.count - cage_events.count = Cardinality({e \in DOMAIN balls : Penetrates(balls[e].pos)})
        /\ \A e \in DOMAIN balls : ~Penetrates(balls[e].pos) => balls'[e] = balls[e]
    /\ stage = 4 =>
        /\ stage' = 0
        /\ UNCHANGED cage_events
    /\ DOMAIN balls' = DOMAIN balls

\* C2: a tick runs apply_gravity, apply_velocity, collide_cage, collide_others
\* once each, in this order, each on all bodies before the next; and after a
\* tick in which nothing collided every body is at
\* old position + (old velocity + gravity * dt) * dt.
C2_TickOrder ==
    /\ [][(stage # 0 /\ stage' # stage) => C2_StageStep]_vars
    /\ [][(stage = 0 /\ stage' # 0) => (stage' = 1 /\ UNCHANGED balls)]_vars
    /\ []((TickDone /\ TickCageEvents = <<>> /\ TickOtherEvents = <<>>) =>
            \A e \in DOMAIN balls :
                LET old == tick_start.balls[e]
                IN  /\ balls[e].vel = <<old.vel[1], old.vel[2] + BALL_GRAVITY>>
                    /\ balls[e].pos = <<old.pos[1] + old.vel[1],
                                        old.pos[2] + old.vel[2] + BALL_GRAVITY>>)

\* A tick is over in which nothing collided and a body moved.
C2_Witness ==
    /\ TickDone
    /\ TickCageEvents = <<>>
    /\ TickOtherEvents = <<>>
    /\ \E e \in DOMAIN balls : balls[e].pos # tick_start.balls[e].pos

---------------------------------------------------------------------------
(* Geometry of the properties, computed apart from the resolvers *)

\* |p - q| >= n, by squares (for n of at most 2 * HalfRadius).
FarApart(p, q, n) ==
    LET a == Abs(p[1] - q[1])
        b == Abs(p[2] - q[2])
    IN  a >= n \/ b >= n \/ a * a >= n * n - b * b

\* Bodies A and B of registry bs overlap as collide_others sees it:
\* 0 < distance(A, B) < radius_A / 2 + radius_B / 2.
OverlapIn(bs, A, B) ==
    /\ A # B
    /\ ~bs[A].nan /\ ~bs[B].nan
    /\ bs[A].pos # bs[B].pos
    /\ ~FarApart(bs[A].pos, bs[B].pos, BALL_RADIUS * Px)

\* The step in which collide_cage, or collide_others, runs.
CageStep == Runs("collide_cage") /\ stage' # stage

OthersStep == Runs("collide_others") /\ stage' # stage

\* The events the step sends.
CageSent == SubSeq(cage_events'.b, Len(cage_events.b) + 1, Len(cage_events'.b))

OthersSent == SubSeq(other_events'.b, Len(other_events.b) + 1, Len(other_events'.b))

---------------------------------------------------------------------------
(* C6 *)

\* C6: collide_cage, for every body with distance + radius/2 > cage_radius:
\* the velocity is reflected about the unit vector n from the body to the cage
\* center (v' - v is along n, and v' + v is across it), the position moves by
\* overlap * n with overlap = radius/2 + distance - cage_radius, one
\* CageCollisionEvent names the body, and the corrected position no longer
\* satisfies distance + radius/2 > cage_radius.  No other body gets an event.
C6_CagePenetrationResolved ==
    [][CageStep =>
        /\ \A e \in DOMAIN balls :
            LET p == balls[e].pos
                v == balls[e].vel
                q == balls'[e].pos
                w == balls'[e].vel
                distance == Length(p)
                n == Normalize(<<-p[1], -p[2]>>)
                overlap == (BALL_RADIUS * Px) \div 2 + distance - CAGE_RADIUS * Px
            IN  (distance + (BALL_RADIUS * Px) \div 2 > CAGE_RADIUS * Px) =>
                    /\ (w[1] - v[1]) * n.y = (w[2] - v[2]) * n.x
                    /\ (w[1] + v[1]) * n.x + (w[2] + v[2]) * n.y = 0
                    /\ (q[1] - p[1]) * n.h = overlap * n.x
                    /\ (q[2] - p[2]) * n.h = overlap * n.y
                    /\ Cardinality({i \in 1..Len(CageSent) : CageSent[i] = e}) = 1
                    /\ ~(Length(q) + (BALL_RADIUS * Px) \div 2 > CAGE_RADIUS * Px)
        /\ \A e \in Range(CageSent) :
            Length(balls[e].pos) + (BALL_RADIUS * Px) \div 2 > CAGE_RADIUS * Px]_vars

\* collide_cage has run on a body that was across the wall, off both axes:
\* the body is now at distance cage_radius - radius/2, and its event is sent.
C6_Witness ==
    /\ Runs("collide_others")
    /\ \E e \in Range(TickCageEvents) :
        /\ balls[e].pos[1] # 0 /\ balls[e].pos[2] # 0
        /\ Length(balls[e].pos) + HalfRadius = CageRadius
        /\ balls[e].vel # GravityBody(tick_start.balls[e]).vel

---------------------------------------------------------------------------
(* C7 *)

\* C7, as stated: after one pass of collide_others, every pair of bodies that
\* overlapped when it started is at least radius_A/2 + radius_B/2 apart.
C7_EveryOverlapResolved ==
    [][OthersStep =>
        \A A, B \in DOMAIN balls :
            OverlapIn(balls, A, B) =>
                FarApart(balls'[A].pos, balls'[B].pos, BALL_RADIUS * Px)]_vars

\* C7, amended: after one pass of collide_others, every pair of bodies that
\* overlapped when it started, neither of which overlapped a further body, is
\* at least radius_A/2 + radius_B/2 apart.
C7_LoneOverlapResolved ==
    [][OthersStep =>
        \A A, B \in DOMAIN balls :
            (/\ OverlapIn(balls, A, B)
             /\ \A C \in DOMAIN balls \ {A, B} :
                    ~OverlapIn(balls, A, C) /\ ~OverlapIn(balls, B, C)) =>
                FarApart(balls'[A].pos, balls'[B].pos, BALL_RADIUS * Px)]_vars

\* collide_others has run on three bodies of which two overlapped, off the
\* axes, and the third overlapped neither: the two are apart.
C7_Witness ==
    /\ TickDone
    /\ Cardinality(DOMAIN balls) = 3
    /\ \E A, B \in DOMAIN balls :
        /\ Range(TickOtherEvents) = {<<A, B>>, <<B, A>>}
        /\ balls[A].pos[1] # balls[B].pos[1]
        /\ balls[A].pos[2] # balls[B].pos[2]
        /\ FarApart(balls[A].pos, balls[B].pos, BALL_RADIUS * Px)

---------------------------------------------------------------------------
(* C8 *)

\* C8: the OtherCollisionEvents of one pass of collide_others are, once each,
\* the ordered pairs (A, B) of bodies that overlapped when the pass started:
\* with (A, B) also (B, A), whatever the iteration order and whatever the pass
\* has already corrected.
C8_EventsFromSnapshot ==
    [][OthersStep =>
        /\ Range(OthersSent) = {pair \in (DOMAIN balls) \X (DOMAIN balls) :
                                    OverlapIn(balls, pair[1], pair[2])}
        /\ \A i, j \in 1..Len(OthersSent) : OthersSent[i] = OthersSent[j] => i = j
        /\ \A pair \in Range(OthersSent) : <<pair[2], pair[1]>> \in Range(OthersSent)]_vars

\* collide_others has run on a body that overlapped two others: the events of
\* both pairs are sent from both sides.
C8_Witness ==
    /\ TickDone
    /\ \E A, B, C \in DOMAIN balls :
        /\ B # C
        /\ {<<A, B>>, <<B, A>>, <<A, C>>, <<C, A>>} \subseteq Range(TickOtherEvents)

---------------------------------------------------------------------------
(* C9 *)

\* C9: collide_others leaves no NaN in any body; for two distinct bodies at
\* the same position it sends no event, and a body that overlaps no body
\* elsewhere keeps its velocity and position.
C9_ZeroDistanceGuard ==
    [][OthersStep =>
        /\ \A A \in DOMAIN balls : ~balls[A].nan => ~balls'[A].nan
        /\ \A A, B \in DOMAIN balls :
            (A # B /\ ~balls[A].nan /\ ~balls[B].nan /\ balls[A].pos = balls[B].pos) =>
                /\ <<A, B>> \notin Range(OthersSent)
                /\ (\A C \in DOMAIN balls : ~OverlapIn(balls, A, C)) => balls'[A] = balls[A]]_vars

\* collide_others has run on two distinct bodies at the same position, and
\* sent nothing.
C9_Witness ==
    /\ TickDone
    /\ TickOtherEvents = <<>>
    /\ \E A, B \in DOMAIN balls :
        A # B /\ balls[A].pos = balls[B].pos /\ ~balls[A].nan /\ ~balls[B].nan

---------------------------------------------------------------------------
(* C10 *)

\* distance_to_cage_center + radius/2 <= cage_radius
Contained(pos) == Length(pos) + (BALL_RADIUS * Px) \div 2 <= CAGE_RADIUS * Px

\* The bodies named by the OtherCollisionEvents of the current tick.
TickOverlappers == {pair[1] : pair \in Range(TickOtherEvents)}

\* C10, as stated: after a complete tick every body is contained in the cage.
C10_ContainedAfterTick == TickDone => \A e \in DOMAIN balls : Contained(balls[e].pos)

\* C10, amended: every body is contained in the cage when collide_cage has
\* run, and after the complete tick every body that overlapped no other body
\* in collide_others is.
C10_ContainedUnlessPushed ==
    /\ Runs("collide_others") => \A e \in DOMAIN balls : Contained(balls[e].pos)
    /\ TickDone => \A e \in DOMAIN balls \ TickOverlappers : Contained(balls[e].pos)

\* A tick is over in which two bodies overlapped each other and a third, within
\* the cage, overlapped none.
C10_Witness ==
    /\ TickDone
    /\ TickOverlappers # {}
    /\ \E e \in DOMAIN balls \ TickOverlappers : Contained(balls[e].pos)

====
